---- MODULE Spec2Model ----
(***************************************************************************)
(* TIMB grower discovery: the cooperative (asyncio) scraper and command,   *)
(* the thread-pool scraper and command, and the sequential command.        *)
(*                                                                         *)
(* An identifier "V<i>" is modelled by the integer i, a season by its      *)
(* year.  The portal is a fixture: for every (identifier, season) it holds *)
(* either no record ("absent": the page answered is "Please specify the    *)
(* grower number"), a report page whose name field is empty ("empty") or a *)
(* report page with a name ("named").  Every physical request may also     *)
(* fail with an exception: "timeout" stands for every transient failure   *)
(* (asyncio.TimeoutError, connection error), "auth" for the HTTP error of  *)
(* an invalidated session.                                                 *)
(***************************************************************************)
EXTENDS Integers, Sequences, FiniteSets, TLC

\* ---------------------------------------------------------------- bounds
NumIds == 2
NumYears == 2
MaxConcurrent == 2
\* the batch loop alone: --start and --end up to MaxEnd, --batch-size up to
\* MaxBatch
MaxEnd == 6
MaxBatch == 4

\* ------------------------------------------------------- program constants
\* --start and --end of the command line: the identifiers "V1" .. "V<NumIds>"
start_id == 1
end_id == start_id + NumIds - 1
start_year == 2018
current_year == start_year + NumYears - 1
max_retries == 2
\* seconds
retry_delay == 1
\* the grower_number of a report that carries none
NoNumber == 0
None == "None"

Ids == start_id .. end_id
Years == start_year .. current_year
Pages == {"absent", "empty", "named"}
\* the bodies of a response: a page, or one the parser cannot interpret
Bodies == Pages \cup {"malformed"}
Errors == {"timeout", "auth"}

VARIABLES
    portal,             \* fixture: [Ids -> [Years -> Pages]]
    world,              \* fixture: the failures of requests and of saves
    first,              \* <<the Store a finished earlier run has left>>, or <<>>
    options,            \* command and command line: batch_size, concurrent, ...
    pc,                 \* position of the command
    batch_start,        \* loop variable of the batch loop
    batches,            \* history: the identifiers of the batches the batch
                        \* loop has handed to process_batch (kept by the
                        \* runs of the batch loop alone)
    tasks,              \* coroutines (or pool work items) of the running gather
    completed,          \* thread pool: indexes of tasks, in order of completion
    semaphore,          \* free permits of AsyncTIMBScraper.semaphore
    stats,              \* the scraper's counters
    stats_lock,         \* thread-pool scraper: the lock of the counters is held
    is_logged_in,       \* the session is authenticated
    authError,          \* a lookup has failed because the session is invalid
    posted,             \* lookup requests the portal has been sent
    discovery_results,  \* results of the batch's discovery, a sequence
    k,                  \* index of the running loop over results or seasons
    reports_saved,      \* reports saved by the batch's full-history stage
    i,                  \* sequential command: loop variable of the identifier loop
    report_data,        \* sequential command: report of the last probe
    Grower,             \* Store: grower_number of every Grower row
    SeasonalReport,     \* Store: <<grower_number, season_year>> of every row
    GradeAnalysis,      \* Store: the SeasonalReport rows whose nested rows
                        \* (GradeAnalysis, CreditorRecovery) are all there
    total_discovered,
    total_reports_saved,
    exit_status,        \* status the command process ends with
    message             \* last diagnostic written by the command

vars == <<portal, world, first, options, pc, batch_start, batches, tasks, completed, semaphore, stats,
          stats_lock, is_logged_in, authError, posted, discovery_results, k, reports_saved,
          i, report_data, Grower, SeasonalReport, GradeAnalysis, total_discovered,
          total_reports_saved, exit_status, message>>

\* what no step of a command changes: the fixtures, the command line, and the
\* lock of the counters, which every step of a command leaves free; and the
\* history of the batches
env == <<portal, world, first, options, stats_lock, batches>>
store == <<Grower, SeasonalReport, GradeAnalysis>>
\* the rows of the seasonal reports
reports == <<SeasonalReport, GradeAnalysis>>
totals == <<total_discovered, total_reports_saved>>
\* the command's own variables, left alone by the steps of a task
command == <<pc, batch_start, discovery_results, k, reports_saved, i, report_data,
             totals, exit_status, message, is_logged_in>>
\* the sequential command's locals
seq == <<i, report_data>>
\* the batch loop's variables
batch == <<batch_start, discovery_results, k, reports_saved, totals>>

\* ------------------------------------------------------------- helpers
Min(a, b) == IF a < b THEN a ELSE b

RECURSIVE SeqOfRange(_, _)
\* list(range(a, b + 1))
SeqOfRange(a, b) == IF a > b THEN <<>> ELSE <<a>> \o SeqOfRange(a + 1, b)

RECURSIVE Filter(_, _)
\* [x for x in s if x in keep]
Filter(s, keep) ==
    IF s = <<>> THEN <<>>
    ELSE (IF Head(s) \in keep THEN <<Head(s)>> ELSE <<>>) \o Filter(Tail(s), keep)

\* sleep is the length of the last backoff sleep of the logical lookup
Task(kind, g, y) ==
    [kind |-> kind, grower_id |-> g, season |-> y, attempt |-> 0,
     pc |-> "acquire", last |-> "", sent |-> 0, sleep |-> 0, result |-> None]

ZeroStats ==
    [requests_made |-> 0, successful_requests |-> 0, failed_requests |-> 0,
     retries |-> 0, growers_discovered |-> 0]

AllDone == \A t \in DOMAIN tasks : tasks[t].pc = "done"
InFlight == Cardinality({t \in DOMAIN tasks : tasks[t].pc = "request"})
HoldingPermit == Cardinality({t \in DOMAIN tasks : tasks[t].pc \in {"delay", "request"}})

\* ---------------------------------------------------------- the world
\* A world is either free (any request may fail on any attempt, any save may
\* raise, any report may lack its grower number) or scripted: the requests for
\* a pair fail on the first fails[g][y] attempts of a logical lookup, the
\* reports of the pairs in `invalid` have a nested entry the Store refuses,
\* and the reports of the identifiers in `unnumbered` carry no grower number.
NoFails == [g \in Ids |-> [y \in Years |-> 0]]
Free == [scripted |-> FALSE, fails |-> NoFails, invalid |-> {}, unnumbered |-> {}]

\* the grower_number field a report for the identifier g can carry
GrowerNumbers(g) ==
    IF world.scripted
      THEN {IF g \in world.unnumbered THEN NoNumber ELSE g}
      ELSE {g, NoNumber}

\* whether a nested entry of the report for <<g, y>> can be refused
Invalid(g, y) ==
    IF world.scripted THEN {(<<g, y>> \in world.invalid)} ELSE BOOLEAN

\* ---------------------------------------------------------- the Store
Rows == [SeasonalReport |-> SeasonalReport, GradeAnalysis |-> GradeAnalysis,
         raised |-> FALSE]

\* transaction.atomic() without a rollback
transaction_atomic_NoRollback(before, after) == after

\* transaction.atomic(): the rows the block has written are kept unless the
\* block raises
transaction_atomic(before, after) ==
    IF after.raised THEN [before EXCEPT !.raised = TRUE] ELSE after

\* SeasonalReport.objects.create and the creation of the nested entries: the
\* Store refuses a second row for a (grower, season_year) pair
\* (unique_together), and refuses an invalid nested entry after the row of
\* the report has been written
objects_create(pair, invalid) ==
    IF pair \in SeasonalReport
      THEN [Rows EXCEPT !.raised = TRUE]
      ELSE [SeasonalReport |-> SeasonalReport \cup {pair},
            GradeAnalysis |-> IF invalid THEN GradeAnalysis
                              ELSE GradeAnalysis \cup {pair},
            raised |-> invalid]

\* create_seasonal_data without the test for an existing report
create_seasonal_data_NoExistsCheck(pair, invalid) ==
    transaction_atomic(Rows, objects_create(pair, invalid))

\* create_seasonal_data of the async and of the thread-pool command, in its
\* transaction: a report that exists is skipped
create_seasonal_data(pair, invalid) ==
    IF pair \in SeasonalReport
      THEN Rows
      ELSE transaction_atomic(Rows, objects_create(pair, invalid))

\* create_seasonal_data of the sequential command, in the transaction of its
\* caller: no test for an existing report
S_create_seasonal_data(pair, invalid) ==
    transaction_atomic(Rows, objects_create(pair, invalid))

\* ---------------------------------------------------- AsyncTIMBScraper
\* parse_report: the "Please specify the grower number" page parses to None,
\* and so does a body the parser raises an exception on ("malformed"); any
\* other page parses to a report dictionary
parse_report(html_content) ==
    IF html_content \in {"absent", "malformed"} THEN None ELSE html_content

\* acquire_semaphore without the wait for a free permit
acquire_semaphore_NoWait(t) ==
    /\ options.command = "async"
    /\ tasks[t].pc = "acquire"
    /\ semaphore' = semaphore - 1
    /\ tasks' = [tasks EXCEPT ![t].pc = "delay"]
    /\ UNCHANGED <<env, command, store, completed, stats, authError, posted>>

\* `async with self.semaphore`: take a permit, or stay suspended while none is free
acquire_semaphore(t) ==
    /\ options.command = "async"
    /\ tasks[t].pc = "acquire"
    /\ semaphore > 0
    /\ semaphore' = semaphore - 1
    /\ tasks' = [tasks EXCEPT ![t].pc = "delay"]
    /\ UNCHANGED <<env, command, store, completed, stats, authError, posted>>

\* end of the request_delay sleep: count the request and post it
send_request(t) ==
    /\ options.command = "async"
    /\ tasks[t].pc = "delay"
    /\ stats' = [stats EXCEPT !.requests_made = @ + 1]
    /\ tasks' = [tasks EXCEPT ![t].pc = "request", ![t].sent = @ + 1]
    /\ posted' = posted + 1
    /\ UNCHANGED <<env, command, store, completed, semaphore, authError>>

\* a portal whose scripted failures are over when the command is run again
Responses_Recovered(tk) ==
    IF authError THEN {"auth"}
    ELSE IF world.scripted
      THEN {IF first = <<>> /\ tk.attempt < world.fails[tk.grower_id][tk.season]
              THEN "timeout" ELSE portal[tk.grower_id][tk.season]}
      ELSE {portal[tk.grower_id][tk.season]} \cup Errors

\* what the portal can answer to the request of task tk: its page for the pair,
\* or an exception; once the session is invalid every request fails on it
Responses(tk) ==
    IF authError THEN {"auth"}
    ELSE IF world.scripted
      THEN {IF tk.attempt < world.fails[tk.grower_id][tk.season]
              THEN "timeout" ELSE portal[tk.grower_id][tk.season]}
      ELSE {portal[tk.grower_id][tk.season]} \cup Errors

\* a coroutine that has returned: only its return value is left
Returned(tk, season, value) ==
    [Task(tk.kind, tk.grower_id, season) EXCEPT !.pc = "done", !.result = value]

\* discover_grower_first_season without the test of the name field
discover_grower_first_season_AnyReport(tk, data, st) ==
    IF data # None
      THEN [task |-> Returned(tk, tk.season, data),
            stats |-> [st EXCEPT !.growers_discovered = @ + 1]]
      ELSE IF tk.season < current_year
        THEN [task |-> Task(tk.kind, tk.grower_id, tk.season + 1),
              stats |-> st]
        ELSE [task |-> Returned(tk, start_year, None),
              stats |-> st]

\* discover_grower_first_season that goes on to the last season of the range
discover_grower_first_season_ToTheEnd(tk, data, st) ==
    IF tk.season < current_year
      THEN [task |-> Task(tk.kind, tk.grower_id, tk.season + 1),
            stats |-> st]
      ELSE IF data = "named"
        THEN [task |-> Returned(tk, tk.season, data),
              stats |-> [st EXCEPT !.growers_discovered = @ + 1]]
        ELSE [task |-> Returned(tk, start_year, None),
              stats |-> st]

\* discover_grower_first_season, after fetch_report_with_retry has returned
\* report_data = data for tk.season: found, next year, or range exhausted
discover_grower_first_season(tk, data, st) ==
    IF data = "named"
      THEN [task |-> Returned(tk, tk.season, data),
            stats |-> [st EXCEPT !.growers_discovered = @ + 1]]
      ELSE IF tk.season < current_year
        THEN [task |-> Task(tk.kind, tk.grower_id, tk.season + 1),
              stats |-> st]
        ELSE [task |-> Returned(tk, start_year, None),
              stats |-> st]

\* _fetch_with_metadata: (grower_id, season, report_data), or None
fetch_with_metadata(tk, data, st) ==
    [task |-> Returned(tk, tk.season, data), stats |-> st]

\* the caller of fetch_report_with_retry resumes with its return value
Return(tk, data, st) ==
    IF tk.kind = "discover"
      THEN discover_grower_first_season(tk, data, st)
      ELSE fetch_with_metadata(tk, data, st)

\* fetch_report_with_retry that does not count its retries
fetch_report_with_retry_Uncounted(tk, o) ==
    LET result == IF o \in Errors THEN None ELSE parse_report(o)
        at == [tk EXCEPT !.last = o]
    IN  IF result # None
          THEN Return(at, result,
                      [stats EXCEPT !.successful_requests = @ + 1])
          ELSE IF tk.attempt < max_retries
            THEN [task |-> [at EXCEPT !.pc = "backoff"],
                  stats |-> stats]
            ELSE Return(at, None,
                        [stats EXCEPT !.failed_requests =
                             IF o \in Errors THEN @ + 2 ELSE @ + 1])

\* fetch_report_with_retry with one turn too many in its loop
fetch_report_with_retry_OneMore(tk, o) ==
    LET result == IF o \in Errors THEN None ELSE parse_report(o)
        at == [tk EXCEPT !.last = o]
    IN  IF result # None
          THEN Return(at, result,
                      [stats EXCEPT !.successful_requests = @ + 1])
          ELSE IF tk.attempt <= max_retries
            THEN [task |-> [at EXCEPT !.pc = "backoff"],
                  stats |-> [stats EXCEPT !.retries = @ + 1]]
            ELSE Return(at, None,
                        [stats EXCEPT !.failed_requests =
                             IF o \in Errors THEN @ + 2 ELSE @ + 1])

\* fetch_report_with_retry that gives up after the first failed attempt
fetch_report_with_retry_NoRetry(tk, o) ==
    LET result == IF o \in Errors THEN None ELSE parse_report(o)
        at == [tk EXCEPT !.last = o]
    IN  IF result # None
          THEN Return(at, result,
                      [stats EXCEPT !.successful_requests = @ + 1])
          ELSE Return(at, None,
                      [stats EXCEPT !.failed_requests =
                           IF o \in Errors THEN @ + 2 ELSE @ + 1])

\* a backoff sleep of the same length before every retry
backoff_delay_Constant(attempt) == retry_delay

\* asyncio.sleep(self.config.retry_delay * (attempt + 1))
backoff_delay(attempt) == retry_delay * (attempt + 1)

\* fetch_report_with_retry, one turn of its loop: the outcome o of the physical
\* attempt (a page, or an exception raised by _fetch_single_report) gives the
\* counters' increments and either a backoff sleep or the return value
fetch_report_with_retry(tk, o) ==
    LET result == IF o \in Errors THEN None ELSE parse_report(o)
        at == [tk EXCEPT !.last = o]
    IN  IF result # None
          THEN Return(at, result,
                      [stats EXCEPT !.successful_requests = @ + 1])
          ELSE IF tk.attempt < max_retries
            THEN [task |-> [at EXCEPT !.pc = "backoff",
                                      !.sleep = backoff_delay(tk.attempt)],
                  stats |-> [stats EXCEPT !.retries = @ + 1]]
            ELSE Return(at, None,
                        [stats EXCEPT !.failed_requests =
                             IF o \in Errors THEN @ + 2 ELSE @ + 1])

\* receive_response that releases the permit only when a page has arrived
receive_response_LeaksOnError(t) ==
    /\ options.command = "async"
    /\ tasks[t].pc = "request"
    /\ \E o \in Responses(tasks[t]) :
         LET r == fetch_report_with_retry(tasks[t], o)
         IN  /\ tasks' = [tasks EXCEPT ![t] = r.task]
             /\ stats' = r.stats
             /\ authError' = (authError \/ o = "auth")
             /\ semaphore' = IF o \in Errors THEN semaphore ELSE semaphore + 1
    /\ UNCHANGED <<env, command, store, completed, posted>>

\* receive_response that keeps the permit
receive_response_KeepsPermit(t) ==
    /\ options.command = "async"
    /\ tasks[t].pc = "request"
    /\ \E o \in Responses(tasks[t]) :
         LET r == fetch_report_with_retry(tasks[t], o)
         IN  /\ tasks' = [tasks EXCEPT ![t] = r.task]
             /\ stats' = r.stats
             /\ authError' = (authError \/ o = "auth")
    /\ semaphore' = semaphore
    /\ UNCHANGED <<env, command, store, completed, posted>>

\* _fetch_single_report from the post on: the response (or the exception)
\* arrives, the permit is released, fetch_report_with_retry goes on
receive_response(t) ==
    /\ options.command = "async"
    /\ tasks[t].pc = "request"
    /\ \E o \in Responses(tasks[t]) :
         LET r == fetch_report_with_retry(tasks[t], o)
         IN  /\ tasks' = [tasks EXCEPT ![t] = r.task]
             /\ stats' = r.stats
             /\ authError' = (authError \/ o = "auth")
    /\ semaphore' = semaphore + 1
    /\ UNCHANGED <<env, command, store, completed, posted>>

\* end of the backoff sleep retry_delay * (attempt + 1): next turn of the loop
retry_after_backoff(t) ==
    /\ options.command = "async"
    /\ tasks[t].pc = "backoff"
    /\ tasks' = [tasks EXCEPT ![t].attempt = @ + 1, ![t].pc = "acquire"]
    /\ UNCHANGED <<env, command, store, completed, semaphore, stats, authError,
                   posted>>

\* ------------------------------------- async-discover-growers: Command
ResultOf(tk) ==
    [grower_id |-> tk.grower_id, first_season |-> tk.season,
     first_report_data |-> tk.result]

\* a gather that loses every result when one of its tasks has none
Collect_AllOrNothing(ts) ==
    IF \E j \in DOMAIN ts : ts[j].result = None
      THEN <<>>
      ELSE [j \in DOMAIN ts |-> ResultOf(ts[j])]

RECURSIVE Collect(_)
\* the results of gather that are not None, in the order of the tasks
Collect(ts) ==
    IF ts = <<>> THEN <<>>
    ELSE (IF Head(ts).result # None THEN <<ResultOf(Head(ts))>> ELSE <<>>)
         \o Collect(Tail(ts))

RECURSIVE TasksFor(_, _, _)
\* one task per (grower_id, season) pair of the two lists
TasksFor(kind, gs, ys) ==
    IF gs = <<>> THEN <<>>
    ELSE <<Task(kind, Head(gs), Head(ys))>> \o TasksFor(kind, Tail(gs), Tail(ys))

RECURSIVE Repeat(_, _)
Repeat(x, n) == IF n = 0 THEN <<>> ELSE <<x>> \o Repeat(x, n - 1)

\* login whose failure does not end async_main
login_NoReturn ==
    /\ options.command = "async"
    /\ pc = "start"
    /\ \E ok \in BOOLEAN :
         /\ is_logged_in' = ok
         /\ pc' = "batch"
         /\ message' = IF ok THEN message ELSE "Login failed. Aborting."
    /\ UNCHANGED <<env, batch, seq, exit_status, store, tasks,
                   completed, semaphore, stats, authError, posted>>

\* async_main: the scraper is built and login() answers; a failed login
\* writes the diagnostic and returns
login ==
    /\ options.command = "async"
    /\ pc = "start"
    /\ \E ok \in BOOLEAN :
         IF ok
           THEN /\ is_logged_in' = TRUE
                /\ pc' = "batch"
                /\ message' = message
           ELSE /\ is_logged_in' = FALSE
                /\ pc' = "exit"
                /\ message' = "Login failed. Aborting."
    /\ UNCHANGED <<env, batch, seq, exit_status, store, tasks,
                   completed, semaphore, stats, authError, posted>>

\* process_batch returns (discovered, saved): the caller adds them to its
\* totals and the batch loop steps on
EndBatch(discovered, saved) ==
    /\ total_discovered' = total_discovered + discovered
    /\ total_reports_saved' = total_reports_saved + saved
    /\ batch_start' = batch_start + options.batch_size
    /\ pc' = "batch"
    /\ discovery_results' = <<>>
    /\ k' = 0
    /\ reports_saved' = 0

\* BatchIds without the filter of resume mode
BatchIds_NoFilter ==
    LET batch_end == Min(batch_start + options.batch_size - 1, end_id)
    IN  SeqOfRange(batch_start, batch_end)

\* the identifiers of the batch at batch_start, less the existing growers
\* (get_existing_grower_ids) when resuming
BatchIds ==
    LET batch_end == Min(batch_start + options.batch_size - 1, end_id)
        grower_ids == SeqOfRange(batch_start, batch_end)
    IN  IF options.resume THEN Filter(grower_ids, Ids \ Grower) ELSE grower_ids

\* process_batch up to the call of discover_growers_batch
process_batch ==
    /\ options.command = "async"
    /\ pc = "batch"
    /\ batch_start <= end_id
    /\ LET grower_ids == BatchIds
       IN  IF grower_ids = <<>>
             THEN /\ EndBatch(0, 0)
                  /\ tasks' = tasks
             ELSE /\ tasks' = TasksFor("discover", grower_ids,
                                       Repeat(start_year, Len(grower_ids)))
                  /\ pc' = "discover"
                  /\ UNCHANGED batch
    /\ UNCHANGED <<env, seq, exit_status, message, is_logged_in, store,
                   completed, semaphore, stats, authError, posted>>

\* discover_growers_batch that does not wait for its tasks
discover_growers_batch_NoWait ==
    /\ options.command = "async"
    /\ pc = "discover"
    /\ LET discovered_growers == Collect(tasks)
       IN  IF discovered_growers = <<>>
             THEN EndBatch(0, 0)
             ELSE /\ discovery_results' = discovered_growers
                  /\ pc' = "save"
                  /\ k' = 1
                  /\ UNCHANGED <<batch_start, reports_saved, totals>>
    /\ tasks' = <<>>
    /\ UNCHANGED <<env, seq, exit_status, message, is_logged_in, store,
                   completed, semaphore, stats, authError, posted>>

\* discover_growers_batch: gather has returned
discover_growers_batch ==
    /\ options.command = "async"
    /\ pc = "discover"
    /\ AllDone
    /\ LET discovered_growers == Collect(tasks)
       IN  IF discovered_growers = <<>>
             THEN EndBatch(0, 0)
             ELSE /\ discovery_results' = discovered_growers
                  /\ pc' = "save"
                  /\ k' = 1
                  /\ UNCHANGED <<batch_start, reports_saved, totals>>
    /\ tasks' = <<>>
    /\ UNCHANGED <<env, seq, exit_status, message, is_logged_in, store,
                   completed, semaphore, stats, authError, posted>>

\* AfterSave that goes on to the full-history stage in discover-only mode too
AfterSave_IgnoreDiscoverOnly ==
    IF k < Len(discovery_results)
      THEN /\ k' = k + 1
           /\ UNCHANGED <<pc, batch_start, discovery_results, reports_saved,
                          totals>>
      ELSE /\ pc' = "fetch"
           /\ k' = 1
           /\ UNCHANGED <<batch_start, discovery_results, reports_saved,
                          totals>>

\* AfterSave that leaves the loop after its first turn
AfterSave_FirstOnly ==
    IF options.discover_only
      THEN EndBatch(Len(discovery_results), 0)
      ELSE /\ pc' = "fetch"
           /\ k' = 1
           /\ UNCHANGED <<batch_start, discovery_results, reports_saved,
                          totals>>

\* the loop of save_discovered_growers steps to the next result, or the
\* function returns and process_batch goes on with it
AfterSave ==
    IF k < Len(discovery_results)
      THEN /\ k' = k + 1
           /\ UNCHANGED <<pc, batch_start, discovery_results, reports_saved,
                          totals>>
      ELSE IF options.discover_only
        THEN EndBatch(Len(discovery_results), 0)
        ELSE /\ pc' = "fetch"
             /\ k' = 1
             /\ UNCHANGED <<batch_start, discovery_results, reports_saved,
                            totals>>

\* save_discovered_growers, one turn of its loop, for discovery_results[k]:
\* get_or_create_grower keyed by the report's grower_number field gn (the
\* identifier, or '' when the report has no such field), then
\* create_seasonal_data in its own transaction; the Store may refuse the new
\* grower (refused) or a nested entry of the report (invalid), and the
\* exception is caught and reported
save_discovered_growers ==
    /\ options.command = "async"
    /\ pc = "save"
    /\ LET result == discovery_results[k]
       IN  \E gn \in GrowerNumbers(result.grower_id) :
           \E refused \in (IF world.scripted \/ gn \in Grower
                             THEN {FALSE} ELSE BOOLEAN),
              invalid \in Invalid(result.grower_id, result.first_season) :
             IF refused
               THEN UNCHANGED store
               ELSE LET saved == create_seasonal_data(
                                     <<gn, result.first_season>>, invalid)
                    IN  /\ Grower' = Grower \cup {gn}
                        /\ SeasonalReport' = saved.SeasonalReport
                        /\ GradeAnalysis' = saved.GradeAnalysis
    /\ AfterSave
    /\ UNCHANGED <<env, seq, exit_status, message, is_logged_in, tasks,
                   completed, semaphore, stats, authError, posted>>

\* get_existing_seasons_for_grower
get_existing_seasons_for_grower(grower_id) ==
    {y \in Years : <<grower_id, y>> \in SeasonalReport}

\* MissingSeasons that begins at first_season
MissingSeasons_FromFirst(result) ==
    Filter(SeqOfRange(result.first_season, current_year),
           Years \ get_existing_seasons_for_grower(result.grower_id))

\* the seasons after first_season that are not in the Store
MissingSeasons(result) ==
    Filter(SeqOfRange(result.first_season + 1, current_year),
           Years \ get_existing_seasons_for_grower(result.grower_id))

\* the loop over discovery_results of the full-history stage steps to the
\* next result, or the function returns and process_batch with it
NextResult(saved) ==
    IF k < Len(discovery_results)
      THEN /\ k' = k + 1
           /\ pc' = "fetch"
           /\ reports_saved' = saved
           /\ UNCHANGED <<batch_start, discovery_results, totals>>
      ELSE EndBatch(Len(discovery_results), saved)

\* fetch_all_seasons_for_discovered_growers, for discovery_results[k], up to
\* the call of fetch_multiple_reports
fetch_all_seasons_for_discovered_growers ==
    /\ options.command = "async"
    /\ pc = "fetch"
    /\ LET result == discovery_results[k]
           seasons_to_fetch == MissingSeasons(result)
       IN  IF seasons_to_fetch = <<>>
             THEN /\ NextResult(reports_saved)
                  /\ tasks' = tasks
             ELSE /\ tasks' = TasksFor("fetch",
                                       Repeat(result.grower_id, Len(seasons_to_fetch)),
                                       seasons_to_fetch)
                  /\ pc' = "fetchwait"
                  /\ UNCHANGED batch
    /\ UNCHANGED <<env, seq, exit_status, message, is_logged_in, store,
                   completed, semaphore, stats, authError, posted>>

\* the reports fetched for discovery_results[k] are saved by
\* create_seasonal_data, each in its own transaction, for the grower found by
\* get_grower_by_id; a save that raises (faulty) is reported and not counted
SaveSeasonalResults(fetched) ==
    LET grower_id == discovery_results[k].grower_id
        faults == IF world.scripted
                    THEN {{t \in fetched :
                             <<grower_id, tasks[t].season>> \in world.invalid}}
                    ELSE SUBSET {t \in fetched :
                             <<grower_id, tasks[t].season>> \notin SeasonalReport}
    IN  IF grower_id \in Grower
          THEN \E faulty \in faults :
                 LET saved(t) == create_seasonal_data(
                                     <<grower_id, tasks[t].season>>, t \in faulty)
                 IN  /\ SeasonalReport' = SeasonalReport \cup
                           UNION {saved(t).SeasonalReport : t \in fetched}
                     /\ GradeAnalysis' = GradeAnalysis \cup
                           UNION {saved(t).GradeAnalysis : t \in fetched}
                     /\ NextResult(reports_saved +
                           Cardinality({t \in fetched : ~saved(t).raised}))
          ELSE /\ UNCHANGED reports
               /\ NextResult(reports_saved)

\* fetch_multiple_reports has returned to fetch_all_seasons_for_discovered_growers
save_seasonal_results ==
    /\ options.command = "async"
    /\ pc = "fetchwait"
    /\ AllDone
    /\ SaveSeasonalResults({t \in DOMAIN tasks : tasks[t].result # None})
    /\ tasks' = <<>>
    /\ UNCHANGED <<env, seq, exit_status, message, is_logged_in, Grower,
                   completed, semaphore, stats, authError, posted>>

\* async_main: the batch loop is over, the summary of the totals is written
\* and handle returns
async_main_summary ==
    /\ options.command = "async"
    /\ pc = "batch"
    /\ batch_start > end_id
    /\ pc' = "exit"
    /\ message' = "Process complete"
    /\ UNCHANGED <<env, batch, seq, exit_status, is_logged_in, store,
                   tasks, completed, semaphore, stats, authError, posted>>

AsyncNext ==
    \/ login
    \/ process_batch
    \/ \E t \in DOMAIN tasks : acquire_semaphore(t)
    \/ \E t \in DOMAIN tasks : send_request(t)
    \/ \E t \in DOMAIN tasks : receive_response(t)
    \/ \E t \in DOMAIN tasks : retry_after_backoff(t)
    \/ discover_growers_batch
    \/ save_discovered_growers
    \/ fetch_all_seasons_for_discovered_growers
    \/ save_seasonal_results
    \/ async_main_summary

\* -------------------------------------------------- ThreadedTIMBScraper
\* work items a worker thread of the pool is running
Running == {t \in DOMAIN tasks : tasks[t].pc \in {"call", "delay", "request"}}
Queued == {t \in DOMAIN tasks : tasks[t].pc = "queued"}

\* ThreadPoolExecutor(max_workers): a worker takes the oldest queued work item
\* and starts discover_grower_first_season or fetch_report on it
T_start(t) ==
    /\ options.command = "threaded"
    /\ tasks[t].pc = "queued"
    /\ \A u \in Queued : t <= u
    /\ Cardinality(Running) < options.concurrent
    /\ tasks' = [tasks EXCEPT ![t].pc = "call"]
    /\ UNCHANGED <<env, command, store, completed, semaphore, stats, authError,
                   posted>>

\* fetch_report: _update_stats('requests_made'), then the request_delay sleep
T_fetch_report(t) ==
    /\ options.command = "threaded"
    /\ tasks[t].pc = "call"
    /\ stats' = [stats EXCEPT !.requests_made = @ + 1]
    /\ tasks' = [tasks EXCEPT ![t].pc = "delay"]
    /\ UNCHANGED <<env, command, store, completed, semaphore, authError, posted>>

\* fetch_report: the sleep is over, the request is posted
T_send_request(t) ==
    /\ options.command = "threaded"
    /\ tasks[t].pc = "delay"
    /\ tasks' = [tasks EXCEPT ![t].pc = "request", ![t].sent = @ + 1]
    /\ posted' = posted + 1
    /\ UNCHANGED <<env, command, store, completed, semaphore, stats, authError>>

\* the work item of a worker has returned
T_Returned(tk, season, value) ==
    [Task(tk.kind, tk.grower_id, season) EXCEPT !.pc = "done", !.result = value]

\* ThreadedTIMBScraper.discover_grower_first_season, after fetch_report has
\* returned data for tk.season
T_discover_grower_first_season(tk, data, st) ==
    IF data = "named"
      THEN [task |-> T_Returned(tk, tk.season, data),
            stats |-> [st EXCEPT !.growers_discovered = @ + 1]]
      ELSE IF tk.season < current_year
        THEN [task |-> [Task(tk.kind, tk.grower_id, tk.season + 1)
                          EXCEPT !.pc = "call"],
              stats |-> st]
        ELSE [task |-> T_Returned(tk, start_year, None),
              stats |-> st]

\* fetch_report from the response on: a page is parsed and counted as
\* successful or failed, a RequestException is counted as failed; the value
\* returned goes to the discovery loop or is the work item's result
T_fetch_report_returns(tk, o) ==
    LET data == IF o \in Errors THEN None ELSE parse_report(o)
        st == IF data # None
                THEN [stats EXCEPT !.successful_requests = @ + 1]
                ELSE [stats EXCEPT !.failed_requests = @ + 1]
    IN  IF tk.kind = "discover"
          THEN T_discover_grower_first_season(tk, data, st)
          ELSE [task |-> T_Returned(tk, tk.season, data), stats |-> st]

\* the response (or the exception) arrives; a work item that returns is
\* yielded by as_completed, the next in order of completion
T_receive_response(t) ==
    /\ options.command = "threaded"
    /\ tasks[t].pc = "request"
    /\ \E o \in Responses(tasks[t]) :
         LET r == T_fetch_report_returns(tasks[t], o)
         IN  /\ tasks' = [tasks EXCEPT ![t] = r.task]
             /\ stats' = r.stats
             /\ authError' = (authError \/ o = "auth")
             /\ completed' = IF r.task.pc = "done"
                               THEN Append(completed, t) ELSE completed
    /\ UNCHANGED <<env, command, store, semaphore, posted>>

\* ------------------------------- threaded-discover-growers: Command
\* a collection that keeps the result that has completed last only
T_Collect_LastOnly(done) ==
    IF done = <<>> \/ tasks[done[Len(done)]].result = None THEN <<>>
    ELSE <<ResultOf(tasks[done[Len(done)]])>>

RECURSIVE T_Collect(_)
\* the results that are not None, in the order of completion
T_Collect(done) ==
    IF done = <<>> THEN <<>>
    ELSE (IF tasks[Head(done)].result # None
            THEN <<ResultOf(tasks[Head(done)])>> ELSE <<>>)
         \o T_Collect(Tail(done))

Queue(ts) == [t \in DOMAIN ts |-> [ts[t] EXCEPT !.pc = "queued"]]

\* handle: the scraper is built and login() answers
T_login ==
    /\ options.command = "threaded"
    /\ pc = "start"
    /\ \E ok \in BOOLEAN :
         IF ok
           THEN /\ is_logged_in' = TRUE
                /\ pc' = "batch"
                /\ message' = message
           ELSE /\ is_logged_in' = FALSE
                /\ pc' = "exit"
                /\ message' = "Login failed. Aborting."
    /\ UNCHANGED <<env, batch, seq, exit_status, store, tasks,
                   completed, semaphore, stats, authError, posted>>

\* process_batch up to the call of discover_growers_threaded, which submits
\* one work item per identifier
T_process_batch ==
    /\ options.command = "threaded"
    /\ pc = "batch"
    /\ batch_start <= end_id
    /\ LET grower_ids == BatchIds
       IN  IF grower_ids = <<>>
             THEN /\ EndBatch(0, 0)
                  /\ tasks' = tasks
             ELSE /\ tasks' = Queue(TasksFor("discover", grower_ids,
                                             Repeat(start_year, Len(grower_ids))))
                  /\ pc' = "discover"
                  /\ UNCHANGED batch
    /\ UNCHANGED <<env, seq, exit_status, message, is_logged_in, store,
                   completed, semaphore, stats, authError, posted>>

\* discover_growers_threaded: every future has been collected
T_discover_growers_threaded ==
    /\ options.command = "threaded"
    /\ pc = "discover"
    /\ AllDone
    /\ LET discovered_growers == T_Collect(completed)
       IN  IF discovered_growers = <<>>
             THEN EndBatch(0, 0)
             ELSE /\ discovery_results' = discovered_growers
                  /\ pc' = "save"
                  /\ k' = 1
                  /\ UNCHANGED <<batch_start, reports_saved, totals>>
    /\ tasks' = <<>>
    /\ completed' = <<>>
    /\ UNCHANGED <<env, seq, exit_status, message, is_logged_in, store,
                   semaphore, stats, authError, posted>>

\* save_discovered_growers, one turn of its loop, for discovery_results[k]:
\* create_grower_from_report and create_seasonal_data in one transaction; the
\* grower is keyed by the report's grower_number field gn, and a report
\* without that field gives the key None, which the Store refuses; an
\* exception (the grower is refused, or a nested entry of the report is
\* invalid) rolls the transaction back and is reported
T_save_discovered_growers ==
    /\ options.command = "threaded"
    /\ pc = "save"
    /\ LET result == discovery_results[k]
       IN  \E gn \in GrowerNumbers(result.grower_id) :
           \E refused \in (IF world.scripted \/ gn \in Grower
                             THEN {FALSE} ELSE BOOLEAN),
              invalid \in Invalid(result.grower_id, result.first_season) :
             LET saved == create_seasonal_data(
                              <<gn, result.first_season>>, invalid)
             IN  IF refused \/ gn = NoNumber \/ saved.raised
                   THEN UNCHANGED store
                   ELSE /\ Grower' = Grower \cup {gn}
                        /\ SeasonalReport' = saved.SeasonalReport
                        /\ GradeAnalysis' = saved.GradeAnalysis
    /\ AfterSave
    /\ UNCHANGED <<env, seq, exit_status, message, is_logged_in, tasks,
                   completed, semaphore, stats, authError, posted>>

\* fetch_remaining_seasons, for discovery_results[k], up to the call of
\* fetch_multiple_reports_threaded
T_fetch_remaining_seasons ==
    /\ options.command = "threaded"
    /\ pc = "fetch"
    /\ LET result == discovery_results[k]
           missing_seasons == MissingSeasons(result)
       IN  IF missing_seasons = <<>>
             THEN /\ NextResult(reports_saved)
                  /\ tasks' = tasks
             ELSE /\ tasks' = Queue(TasksFor("fetch",
                                       Repeat(result.grower_id, Len(missing_seasons)),
                                       missing_seasons))
                  /\ pc' = "fetchwait"
                  /\ UNCHANGED batch
    /\ UNCHANGED <<env, seq, exit_status, message, is_logged_in, store,
                   completed, semaphore, stats, authError, posted>>

\* fetch_multiple_reports_threaded has returned to fetch_remaining_seasons
T_save_seasonal_results ==
    /\ options.command = "threaded"
    /\ pc = "fetchwait"
    /\ AllDone
    /\ SaveSeasonalResults({t \in DOMAIN tasks : tasks[t].result # None})
    /\ tasks' = <<>>
    /\ completed' = <<>>
    /\ UNCHANGED <<env, seq, exit_status, message, is_logged_in, Grower,
                   semaphore, stats, authError, posted>>

\* handle: the batch loop is over, the statistics and the summary of the
\* totals are written and handle returns
T_summary ==
    /\ options.command = "threaded"
    /\ pc = "batch"
    /\ batch_start > end_id
    /\ pc' = "exit"
    /\ message' = "Process complete"
    /\ UNCHANGED <<env, batch, seq, exit_status, is_logged_in, store,
                   tasks, completed, semaphore, stats, authError, posted>>

ThreadedNext ==
    \/ T_login
    \/ T_process_batch
    \/ \E t \in DOMAIN tasks : T_start(t)
    \/ \E t \in DOMAIN tasks : T_fetch_report(t)
    \/ \E t \in DOMAIN tasks : T_send_request(t)
    \/ \E t \in DOMAIN tasks : T_receive_response(t)
    \/ T_discover_growers_threaded
    \/ T_save_discovered_growers
    \/ T_fetch_remaining_seasons
    \/ T_save_seasonal_results
    \/ T_summary

\* ------------------------------------------ discover-growers: Command
RECURSIVE Reverse(_)
Reverse(sq) == IF sq = <<>> THEN <<>> ELSE Reverse(Tail(sq)) \o <<Head(sq)>>

\* SEASONS: the seasons before the current one, most recent first, then the
\* current one
SEASONS == Reverse(SeqOfRange(start_year, current_year - 1)) \o <<current_year>>

\* TIMBScraper.fetch_report: the parsed page, or None after a RequestException
S_fetch_report(o) == IF o \in Errors THEN None ELSE parse_report(o)

\* an exception nobody catches ends the command
Crash(why) ==
    /\ pc' = "exit"
    /\ exit_status' = 1
    /\ message' = why

\* handle: the scraper is built and login() answers
S_login ==
    /\ options.command = "sequential"
    /\ pc = "start"
    /\ \E ok \in BOOLEAN :
         IF ok
           THEN /\ is_logged_in' = TRUE
                /\ pc' = "grower"
                /\ message' = "Login successful. Starting discovery..."
           ELSE /\ is_logged_in' = FALSE
                /\ pc' = "exit"
                /\ message' = "Login failed. Aborting."
    /\ UNCHANGED <<env, batch, seq, exit_status, store, tasks, completed,
                   semaphore, stats, authError, posted>>

\* handle, head of the loop over the identifiers: a grower already in the
\* Store has its missing seasons scraped, any other identifier is probed
S_next_grower ==
    /\ options.command = "sequential"
    /\ pc = "grower"
    /\ i <= end_id
    /\ pc' = IF i \in Grower THEN "scrape" ELSE "probe"
    /\ k' = 1
    /\ UNCHANGED <<env, batch_start, discovery_results, reports_saved, totals,
                   seq, exit_status, message, is_logged_in, store, tasks,
                   completed, semaphore, stats, authError, posted>>

\* handle, one turn of the discovery probe loop: the season SEASONS[k] is
\* fetched and the name of the report is read (a TypeError when fetch_report
\* has returned None); the loop ends on a name or after the last season
S_probe ==
    /\ options.command = "sequential"
    /\ pc = "probe"
    /\ \E o \in Responses([grower_id |-> i, season |-> SEASONS[k],
                            attempt |-> 0]) :
         LET data == S_fetch_report(o)
         IN  /\ authError' = (authError \/ o = "auth")
             /\ report_data' = data
             /\ IF data = None
                  THEN /\ Crash("TypeError")
                       /\ k' = k
                  ELSE IF data = "named" \/ k = Len(SEASONS)
                    THEN /\ pc' = "create"
                         /\ UNCHANGED <<k, exit_status, message>>
                    ELSE /\ k' = k + 1
                         /\ UNCHANGED <<pc, exit_status, message>>
    /\ posted' = posted + 1
    /\ UNCHANGED <<env, batch_start, discovery_results, reports_saved, totals, i,
                   is_logged_in, store, tasks, completed, semaphore, stats>>

\* handle, after the probe loop: report_data is a report, create_grower_from_report
\* is called with it in a transaction; the grower is keyed by the report's
\* grower_number field gn; without a grower number the command ends on an
\* exception (of the Store for the key None, or of fetch_report for the
\* identifier '' after the row '' was created); so it does when the Store
\* refuses the row (fault)
S_create_grower ==
    /\ options.command = "sequential"
    /\ pc = "create"
    /\ \E gn \in GrowerNumbers(i), fault \in BOOLEAN :
         IF gn = NoNumber
           THEN /\ Grower' = IF fault THEN Grower ELSE Grower \cup {gn}
                /\ Crash("Error")
                /\ k' = k
           ELSE IF fault /\ gn \notin Grower
             THEN /\ Grower' = Grower
                  /\ Crash("IntegrityError")
                  /\ k' = k
             ELSE /\ Grower' = Grower \cup {gn}
                  /\ pc' = "scrape"
                  /\ k' = 1
                  /\ UNCHANGED <<exit_status, message>>
    /\ UNCHANGED <<env, batch_start, discovery_results, reports_saved, totals,
                   seq, is_logged_in, reports, tasks, completed,
                   semaphore, stats, authError, posted>>

\* scrape_all_seasons_for_grower without the test for a report in the Store
S_scrape_all_seasons_for_grower_NoSkip ==
    /\ options.command = "sequential"
    /\ pc = "scrape"
    /\ LET season == SEASONS[k]
           step == /\ exit_status' = exit_status
                   /\ message' = message
                   /\ IF k < Len(SEASONS)
                        THEN /\ k' = k + 1
                             /\ UNCHANGED <<pc, i>>
                        ELSE /\ k' = 0
                             /\ i' = i + 1
                             /\ pc' = "grower"
       IN  IF FALSE
             THEN /\ step
                  /\ UNCHANGED <<reports, authError, posted>>
             ELSE /\ posted' = posted + 1
                  /\ \E o \in Responses([grower_id |-> i, season |-> season,
                                         attempt |-> 0]),
                        invalid \in Invalid(i, season) :
                       /\ authError' = (authError \/ o = "auth")
                       /\ IF S_fetch_report(o) = None
                            THEN /\ invalid = FALSE
                                 /\ UNCHANGED reports
                                 /\ step
                            ELSE LET saved == S_create_seasonal_data(
                                                  <<i, season>>, invalid)
                                 IN  /\ SeasonalReport' = saved.SeasonalReport
                                     /\ GradeAnalysis' = saved.GradeAnalysis
                                     /\ IF saved.raised
                                          THEN /\ Crash("Error")
                                               /\ UNCHANGED <<k, i>>
                                          ELSE step
    /\ UNCHANGED <<env, batch_start, discovery_results, reports_saved, totals,
                   report_data, is_logged_in, Grower, tasks, completed,
                   semaphore, stats>>

\* scrape_all_seasons_for_grower, one turn of its loop, for the grower i and
\* the season SEASONS[k]: a season in the Store is skipped, any other is
\* fetched and its report, if any, saved by create_seasonal_data in a
\* transaction (an exception of it, fault, ends the command); after the last
\* season the loop over the identifiers steps on
S_scrape_all_seasons_for_grower ==
    /\ options.command = "sequential"
    /\ pc = "scrape"
    /\ LET season == SEASONS[k]
           step == /\ exit_status' = exit_status
                   /\ message' = message
                   /\ IF k < Len(SEASONS)
                        THEN /\ k' = k + 1
                             /\ UNCHANGED <<pc, i>>
                        ELSE /\ k' = 0
                             /\ i' = i + 1
                             /\ pc' = "grower"
       IN  IF <<i, season>> \in SeasonalReport
             THEN /\ step
                  /\ UNCHANGED <<reports, authError, posted>>
             ELSE /\ posted' = posted + 1
                  /\ \E o \in Responses([grower_id |-> i, season |-> season,
                                         attempt |-> 0]),
                        invalid \in Invalid(i, season) :
                       /\ authError' = (authError \/ o = "auth")
                       /\ IF S_fetch_report(o) = None
                            THEN /\ invalid = FALSE
                                 /\ UNCHANGED reports
                                 /\ step
                            ELSE LET saved == S_create_seasonal_data(
                                                  <<i, season>>, invalid)
                                 IN  /\ SeasonalReport' = saved.SeasonalReport
                                     /\ GradeAnalysis' = saved.GradeAnalysis
                                     /\ IF saved.raised
                                          THEN /\ Crash("Error")
                                               /\ UNCHANGED <<k, i>>
                                          ELSE step
    /\ UNCHANGED <<env, batch_start, discovery_results, reports_saved, totals,
                   report_data, is_logged_in, Grower, tasks, completed,
                   semaphore, stats>>

\* handle: the loop over the identifiers is over
S_complete ==
    /\ options.command = "sequential"
    /\ pc = "grower"
    /\ i > end_id
    /\ pc' = "exit"
    /\ message' = "Discovery and scraping process complete."
    /\ UNCHANGED <<env, batch, seq, exit_status, is_logged_in, store, tasks,
                   completed, semaphore, stats, authError, posted>>

SequentialNext ==
    \/ S_login
    \/ S_next_grower
    \/ S_probe
    \/ S_create_grower
    \/ S_scrape_all_seasons_for_grower
    \/ S_complete

\* ------------------------------------------------------------ the runs
Fixtures == [Ids -> [Years -> Pages]]

AsyncOptions ==
    [command : {"async"}, batch_size : 1 .. NumIds,
     concurrent : 1 .. MaxConcurrent, discover_only : BOOLEAN, resume : {FALSE}]

\* the state of a command that has been started on a fixture
Start ==
    /\ portal \in Fixtures
    /\ pc = "start"
    /\ batch_start = start_id
    /\ batches = <<>>
    /\ tasks = <<>>
    /\ completed = <<>>
    /\ semaphore = options.concurrent
    /\ stats = ZeroStats
    /\ stats_lock = FALSE
    /\ is_logged_in = FALSE
    /\ authError = FALSE
    /\ posted = 0
    /\ discovery_results = <<>>
    /\ k = 0
    /\ reports_saved = 0
    /\ i = start_id
    /\ report_data = None
    /\ total_discovered = 0
    /\ total_reports_saved = 0
    /\ exit_status = 0
    /\ message = ""

AsyncInit ==
    /\ world = Free
    /\ first = <<>>
    /\ options \in AsyncOptions
    /\ Grower = {}
    /\ SeasonalReport = {}
    /\ GradeAnalysis = {}
    /\ Start

SpecAsync == AsyncInit /\ [][AsyncNext]_vars

ThreadedOptions ==
    [command : {"threaded"}, batch_size : 1 .. NumIds,
     concurrent : 1 .. MaxConcurrent, discover_only : BOOLEAN, resume : {FALSE}]

ThreadedInit ==
    /\ world = Free
    /\ first = <<>>
    /\ options \in ThreadedOptions
    /\ Grower = {}
    /\ SeasonalReport = {}
    /\ GradeAnalysis = {}
    /\ Start

SpecThreaded == ThreadedInit /\ [][ThreadedNext]_vars

SequentialOptions ==
    [command : {"sequential"}, batch_size : {1}, concurrent : {1},
     discover_only : {FALSE}, resume : {TRUE}]

\* the sequential command always resumes from the Store it finds
SequentialInit ==
    /\ world = Free
    /\ first = <<>>
    /\ options \in SequentialOptions
    /\ Grower \in SUBSET Ids
    /\ SeasonalReport \in SUBSET (Grower \X Years)
    /\ GradeAnalysis = SeasonalReport
    /\ Start

SpecSequential == SequentialInit /\ [][SequentialNext]_vars

\* a run of any of the three commands
Init == AsyncInit \/ ThreadedInit \/ SequentialInit

Next == AsyncNext \/ ThreadedNext \/ SequentialNext

Spec == Init /\ [][Next]_vars

\* one logical lookup: fetch_report_with_retry is called, through
\* _fetch_with_metadata, for one pair on a scraper that has logged in
LookupOptions ==
    [command : {"async"}, batch_size : {1}, concurrent : 1 .. MaxConcurrent,
     discover_only : {FALSE}, resume : {FALSE}]

LookupInit ==
    /\ world = Free
    /\ first = <<>>
    /\ options \in LookupOptions
    /\ Grower = {}
    /\ SeasonalReport = {}
    /\ GradeAnalysis = {}
    /\ pc = "lookup"
    /\ batch_start = start_id
    /\ batches = <<>>
    \* the lookup reads the portal at its own pair only: the other pairs hold
    \* no record
    /\ \E g \in Ids, y \in Years, page \in Bodies :
         /\ tasks = <<Task("fetch", g, y)>>
         /\ portal = [a \in Ids |-> [b \in Years |->
                         IF a = g /\ b = y THEN page ELSE "absent"]]
    /\ completed = <<>>
    /\ semaphore = options.concurrent
    /\ stats = ZeroStats
    /\ stats_lock = FALSE
    /\ is_logged_in = TRUE
    /\ authError = FALSE
    /\ posted = 0
    /\ discovery_results = <<>>
    /\ k = 0
    /\ reports_saved = 0
    /\ i = start_id
    /\ report_data = None
    /\ total_discovered = 0
    /\ total_reports_saved = 0
    /\ exit_status = 0
    /\ message = ""

LookupNext ==
    \/ \E t \in DOMAIN tasks : acquire_semaphore(t)
    \/ \E t \in DOMAIN tasks : send_request(t)
    \/ \E t \in DOMAIN tasks : receive_response(t)
    \/ \E t \in DOMAIN tasks : retry_after_backoff(t)

SpecLookup == LookupInit /\ [][LookupNext]_vars

\* ------------------------- ThreadedTIMBScraper: the counters' lock
\* The steps of the thread-pool scraper above take every _update_stats call
\* as one step.  Here the worker threads of one pool are followed statement
\* by statement through fetch_report and _update_stats, whose
\* `self.stats[stat_name] += increment` reads the counter and then writes it.

\* a work item fetch_report(grower_id, season) of the pool: stat_name and
\* value are the argument and the value read of its _update_stats call, then
\* is where fetch_report goes on after the call
Worker(g, y) ==
    [kind |-> "fetch", grower_id |-> g, season |-> y, attempt |-> 0,
     pc |-> "queued", result |-> None, stat_name |-> "", value |-> 0,
     then |-> ""]

\* the work items a worker thread is running
Busy == {t \in DOMAIN tasks : tasks[t].pc \notin {"queued", "done"}}

\* ThreadPoolExecutor(max_workers): a worker takes the oldest queued work item
W_start(t) ==
    /\ tasks[t].pc = "queued"
    /\ \A u \in Queued : t <= u
    /\ Cardinality(Busy) < options.concurrent
    /\ tasks' = [tasks EXCEPT ![t].pc = "call"]
    /\ UNCHANGED <<env, command, store, completed, semaphore, stats, authError,
                   posted>>

\* fetch_report calls _update_stats('requests_made')
W_fetch_report(t) ==
    /\ tasks[t].pc = "call"
    /\ tasks' = [tasks EXCEPT ![t].pc = "lock",
                              ![t].stat_name = "requests_made",
                              ![t].then = "delay"]
    /\ UNCHANGED <<env, command, store, completed, semaphore, stats, authError,
                   posted>>

\* `with self.stats_lock` that does not wait for the lock
stats_lock_acquire_NoWait(t) ==
    /\ tasks[t].pc = "lock"
    /\ stats_lock' = TRUE
    /\ tasks' = [tasks EXCEPT ![t].pc = "read"]
    /\ UNCHANGED <<portal, world, first, options, batches, command, store, completed,
                   semaphore, stats, authError, posted>>

\* _update_stats, `with self.stats_lock`: the thread takes the lock, or stays
\* blocked while another thread holds it
stats_lock_acquire(t) ==
    /\ tasks[t].pc = "lock"
    /\ ~stats_lock
    /\ stats_lock' = TRUE
    /\ tasks' = [tasks EXCEPT ![t].pc = "read"]
    /\ UNCHANGED <<portal, world, first, options, batches, command, store, completed,
                   semaphore, stats, authError, posted>>

\* _update_stats, `self.stats[stat_name] += increment`: the counter is read
update_stats_read(t) ==
    /\ tasks[t].pc = "read"
    /\ tasks' = [tasks EXCEPT ![t].value = stats[tasks[t].stat_name],
                              ![t].pc = "write"]
    /\ UNCHANGED <<env, command, store, completed, semaphore, stats, authError,
                   posted>>

\* _update_stats, `self.stats[stat_name] += increment`: the sum is written
update_stats_write(t) ==
    /\ tasks[t].pc = "write"
    /\ stats' = [stats EXCEPT ![tasks[t].stat_name] = tasks[t].value + 1]
    /\ tasks' = [tasks EXCEPT ![t].pc = "unlock"]
    /\ UNCHANGED <<env, command, store, completed, semaphore, authError, posted>>

\* _update_stats, end of the `with` block: the lock is released and
\* fetch_report goes on (or has returned)
stats_lock_release(t) ==
    /\ tasks[t].pc = "unlock"
    /\ stats_lock' = FALSE
    /\ tasks' = [tasks EXCEPT ![t].pc = tasks[t].then]
    /\ completed' = IF tasks[t].then = "done" THEN Append(completed, t)
                    ELSE completed
    /\ UNCHANGED <<portal, world, first, options, batches, command, store, semaphore,
                   stats, authError, posted>>

\* fetch_report: the request_delay sleep is over, the request is posted
W_send_request(t) ==
    /\ tasks[t].pc = "delay"
    /\ tasks' = [tasks EXCEPT ![t].pc = "request"]
    /\ posted' = posted + 1
    /\ UNCHANGED <<env, command, store, completed, semaphore, stats, authError>>

\* fetch_report whose `except RequestException` returns None without a call
\* of _update_stats
W_receive_response_ErrorUncounted(t) ==
    /\ tasks[t].pc = "request"
    /\ \E o \in Responses(tasks[t]) :
         LET data == IF o \in Errors THEN None ELSE parse_report(o)
         IN  /\ IF o \in Errors
                  THEN /\ tasks' = [tasks EXCEPT ![t].pc = "done",
                                                 ![t].result = None]
                       /\ completed' = Append(completed, t)
                  ELSE /\ tasks' = [tasks EXCEPT
                            ![t].pc = "lock",
                            ![t].result = data,
                            ![t].stat_name = IF data # None
                                               THEN "successful_requests"
                                               ELSE "failed_requests",
                            ![t].then = "done"]
                       /\ completed' = completed
             /\ authError' = (authError \/ o = "auth")
    /\ UNCHANGED <<env, command, store, semaphore, stats, posted>>

\* fetch_report: the response (or the RequestException) arrives, the page is
\* parsed, and _update_stats is called for 'successful_requests' or for
\* 'failed_requests' before the report (or None) is returned
W_receive_response(t) ==
    /\ tasks[t].pc = "request"
    /\ \E o \in Responses(tasks[t]) :
         LET data == IF o \in Errors THEN None ELSE parse_report(o)
         IN  /\ tasks' = [tasks EXCEPT
                   ![t].pc = "lock",
                   ![t].result = data,
                   ![t].stat_name = IF data # None
                                      THEN "successful_requests"
                                      ELSE "failed_requests",
                   ![t].then = "done"]
             /\ authError' = (authError \/ o = "auth")
    /\ UNCHANGED <<env, command, store, completed, semaphore, stats, posted>>

\* fetch_multiple_reports_threaded for the seasons of one grower, on a scraper
\* that has logged in
WorkersInit ==
    /\ world = Free
    /\ first = <<>>
    /\ options \in ThreadedOptions
    /\ Grower = {}
    /\ SeasonalReport = {}
    /\ GradeAnalysis = {}
    /\ pc = "pool"
    /\ batch_start = start_id
    /\ batches = <<>>
    /\ \E g \in Ids, pages \in [Years -> Pages] :
         /\ tasks = [t \in 1 .. NumYears |-> Worker(g, start_year + t - 1)]
         /\ portal = [a \in Ids |-> [b \in Years |->
                         IF a = g THEN pages[b] ELSE "absent"]]
    /\ completed = <<>>
    /\ semaphore = options.concurrent
    /\ stats = ZeroStats
    /\ stats_lock = FALSE
    /\ is_logged_in = TRUE
    /\ authError = FALSE
    /\ posted = 0
    /\ discovery_results = <<>>
    /\ k = 0
    /\ reports_saved = 0
    /\ i = start_id
    /\ report_data = None
    /\ total_discovered = 0
    /\ total_reports_saved = 0
    /\ exit_status = 0
    /\ message = ""

WorkersNext ==
    \/ \E t \in DOMAIN tasks : W_start(t)
    \/ \E t \in DOMAIN tasks : W_fetch_report(t)
    \/ \E t \in DOMAIN tasks : stats_lock_acquire(t)
    \/ \E t \in DOMAIN tasks : update_stats_read(t)
    \/ \E t \in DOMAIN tasks : update_stats_write(t)
    \/ \E t \in DOMAIN tasks : stats_lock_release(t)
    \/ \E t \in DOMAIN tasks : W_send_request(t)
    \/ \E t \in DOMAIN tasks : W_receive_response(t)

SpecWorkers == WorkersInit /\ [][WorkersNext]_vars

\* ------------------------------------------------ the batch loop alone
\* The batch loop of async_main and of the thread-pool handle, for any
\* --start, --end and --batch-size, with process_batch taken as one step.

\* batch_end without the min
BatchEnd_NoMin(bs, size, e) == bs + size - 1

\* batch_end = min(batch_start + batch_size - 1, end_id)
BatchEnd(bs, size, e) == Min(bs + size - 1, e)

RangeOptions ==
    {o \in [command : {"range"}, start : 1 .. MaxEnd, end : 1 .. MaxEnd,
            batch_size : 1 .. MaxBatch, concurrent : {1},
            discover_only : {FALSE}, resume : {FALSE}] : o.start <= o.end}

\* the scraper has logged in and the batch loop begins
RangeInit ==
    /\ world = Free
    /\ first = <<>>
    /\ options \in RangeOptions
    /\ portal \in {[g \in Ids |-> [y \in Years |-> "absent"]]}
    /\ Grower = {}
    /\ SeasonalReport = {}
    /\ GradeAnalysis = {}
    /\ pc = "batch"
    /\ batch_start = options.start
    /\ batches = <<>>
    /\ tasks = <<>>
    /\ completed = <<>>
    /\ semaphore = options.concurrent
    /\ stats = ZeroStats
    /\ stats_lock = FALSE
    /\ is_logged_in = TRUE
    /\ authError = FALSE
    /\ posted = 0
    /\ discovery_results = <<>>
    /\ k = 0
    /\ reports_saved = 0
    /\ i = start_id
    /\ report_data = None
    /\ total_discovered = 0
    /\ total_reports_saved = 0
    /\ exit_status = 0
    /\ message = ""

\* one turn of `for batch_start in range(start_id, end_id + 1, batch_size)`:
\* process_batch is called for batch_start .. batch_end and returns
R_process_batch ==
    /\ options.command = "range"
    /\ pc = "batch"
    /\ batch_start <= options.end
    /\ LET batch_end == BatchEnd(batch_start, options.batch_size, options.end)
       IN  batches' = Append(batches, SeqOfRange(batch_start, batch_end))
    /\ batch_start' = batch_start + options.batch_size
    /\ UNCHANGED <<portal, world, first, options, stats_lock, pc,
                   discovery_results, k, reports_saved, seq, totals,
                   exit_status, message, is_logged_in, store, tasks, completed,
                   semaphore, stats, authError, posted>>

\* the range is exhausted: the summary is written
R_summary ==
    /\ options.command = "range"
    /\ pc = "batch"
    /\ batch_start > options.end
    /\ pc' = "exit"
    /\ message' = "Process complete"
    /\ UNCHANGED <<env, batch, seq, exit_status, is_logged_in, store,
                   tasks, completed, semaphore, stats, authError, posted>>

RangeNext == R_process_batch \/ R_summary

SpecRange == RangeInit /\ [][RangeNext]_vars

\* ------------------------------------------------ a run to its end
\* The async command with a limit of one request in flight, under the
\* scheduling of the event loop: a coroutine that can run is run, a request
\* posted is answered or times out (ClientTimeout), a sleep ends, and a call
\* of the Store returns.
LiveOptions ==
    [command : {"async"}, batch_size : 1 .. NumIds, concurrent : {1},
     discover_only : BOOLEAN, resume : {FALSE}]

\* the portal holds the same pages for every identifier
LiveInit ==
    /\ world = Free
    /\ first = <<>>
    /\ options \in LiveOptions
    /\ Grower = {}
    /\ SeasonalReport = {}
    /\ GradeAnalysis = {}
    /\ Start
    /\ \A g \in Ids : portal[g] = portal[start_id]

SpecLive == LiveInit /\ [][AsyncNext]_vars /\ WF_vars(AsyncNext)

\* ---------------------------------------------------- a second run
\* the scripted worlds: no defect, or one
FailsAt(g, y, n) ==
    [a \in Ids |-> [b \in Years |-> IF a = g /\ b = y THEN n ELSE 0]]
Scripted(fails, invalid, unnumbered) ==
    [scripted |-> TRUE, fails |-> fails, invalid |-> invalid,
     unnumbered |-> unnumbered]
Worlds ==
    {Scripted(NoFails, {}, {})}
    \cup {Scripted(FailsAt(g, y, n), {}, {}) :
             g \in Ids, y \in Years, n \in {1, max_retries + 1}}
    \cup {Scripted(NoFails, {<<g, y>>}, {}) : g \in Ids, y \in Years}
    \cup {Scripted(NoFails, {}, {g}) : g \in Ids}

RerunOptions ==
    [command : {"async", "threaded"}, batch_size : {1, NumIds},
     concurrent : {MaxConcurrent}, discover_only : {FALSE}, resume : {FALSE}]

\* the first run: the full pipeline on an empty Store, in a scripted world
RerunInit ==
    /\ world \in Worlds
    /\ first = <<>>
    /\ options \in RerunOptions
    /\ Grower = {}
    /\ SeasonalReport = {}
    /\ GradeAnalysis = {}
    /\ Start

OtherEngine(c) == IF c = "async" THEN "threaded" ELSE "async"

\* handle is called again after a run that has completed, against the same
\* portal and world: in resume mode on the Store the run has left, or without
\* resume mode on that Store, or with the other engine on the Store the first
\* run started with
Rerun ==
    /\ pc = "exit"
    /\ is_logged_in
    /\ first = <<>>
    /\ first' = <<[Grower |-> Grower, SeasonalReport |-> SeasonalReport,
                   command |-> options.command]>>
    /\ \E again \in {"resume", "repeat", "engine"} :
         /\ options' = [options EXCEPT
                          !.resume = (again = "resume"),
                          !.command = IF again = "engine"
                                        THEN OtherEngine(@) ELSE @]
         /\ IF again = "engine"
              THEN /\ Grower' = {}
                   /\ SeasonalReport' = {}
                   /\ GradeAnalysis' = {}
              ELSE UNCHANGED store
    /\ pc' = "start"
    /\ batch_start' = start_id
    /\ semaphore' = options.concurrent
    /\ stats' = ZeroStats
    /\ is_logged_in' = FALSE
    /\ authError' = FALSE
    /\ posted' = 0
    /\ total_discovered' = 0
    /\ total_reports_saved' = 0
    /\ message' = ""
    /\ UNCHANGED <<portal, world, stats_lock, batches, tasks, completed,
                   discovery_results, k, reports_saved, seq, exit_status>>

RerunNext == AsyncNext \/ ThreadedNext \/ Rerun

SpecRerun == RerunInit /\ [][RerunNext]_vars

\* handle is called again after a run that has completed, with the same
\* command line, against the same portal and world and on the Store the first
\* run started with
Restart ==
    /\ pc = "exit"
    /\ is_logged_in
    /\ first = <<>>
    /\ first' = <<[Grower |-> Grower, SeasonalReport |-> SeasonalReport,
                   command |-> options.command]>>
    /\ Grower' = {}
    /\ SeasonalReport' = {}
    /\ GradeAnalysis' = {}
    /\ pc' = "start"
    /\ batch_start' = start_id
    /\ semaphore' = options.concurrent
    /\ stats' = ZeroStats
    /\ is_logged_in' = FALSE
    /\ authError' = FALSE
    /\ posted' = 0
    /\ total_discovered' = 0
    /\ total_reports_saved' = 0
    /\ message' = ""
    /\ UNCHANGED <<portal, world, options, stats_lock, batches, tasks, completed,
                   discovery_results, k, reports_saved, seq, exit_status>>

RestartNext == AsyncNext \/ ThreadedNext \/ Restart

SpecRestart == RerunInit /\ [][RestartNext]_vars

\* handle is called again, in resume mode, after a run that has completed, on
\* the Store that run has left and against the same portal, which answers
\* every request now
ResumeRecovered ==
    /\ pc = "exit"
    /\ is_logged_in
    /\ first = <<>>
    /\ first' = <<[Grower |-> Grower, SeasonalReport |-> SeasonalReport,
                   command |-> options.command]>>
    /\ options' = [options EXCEPT !.resume = TRUE]
    /\ world' = [world EXCEPT !.fails = NoFails]
    /\ pc' = "start"
    /\ batch_start' = start_id
    /\ semaphore' = options.concurrent
    /\ stats' = ZeroStats
    /\ is_logged_in' = FALSE
    /\ authError' = FALSE
    /\ posted' = 0
    /\ total_discovered' = 0
    /\ total_reports_saved' = 0
    /\ message' = ""
    /\ UNCHANGED <<portal, stats_lock, batches, store, tasks, completed,
                   discovery_results, k, reports_saved, seq, exit_status>>

ResumeNext == AsyncNext \/ ThreadedNext \/ ResumeRecovered

SpecResume == RerunInit /\ [][ResumeNext]_vars

\* ---------------------------------------------------------- properties
NamedYears(g) == {y \in Years : portal[g][y] = "named"}
\* no season of the range holds a report with a name for g
Exhausted(g) == NamedYears(g) = {}
\* the first season of the range that holds a report with a name for g
FirstPeriod(g) == CHOOSE y \in NamedYears(g) : \A z \in NamedYears(g) : y <= z

\* the discoveries that have returned
Discovered ==
    {t \in DOMAIN tasks : tasks[t].kind = "discover" /\ tasks[t].pc = "done"}
\* the logical lookups (of the full-history stage) that have returned
LookedUp ==
    {t \in DOMAIN tasks : tasks[t].kind = "fetch" /\ tasks[t].pc = "done"}
Pipeline == options.command \in {"async", "threaded"}

\* C1: a discovery that returns a result for an identifier returns the first
\* season at which the portal holds a report with a name for it, never a
\* smaller and never a larger one
C1_FirstSeasonIsFirstPresent ==
    \A t \in Discovered :
        tasks[t].result # None =>
            /\ ~Exhausted(tasks[t].grower_id)
            /\ tasks[t].season = FirstPeriod(tasks[t].grower_id)

\* C2: an identifier for which no season holds a report with a name gets no
\* discovery result, is in no batch's discovery_results, and no grower and no
\* seasonal report is persisted for it
C2_ExhaustedYieldsNothing ==
    Pipeline =>
        \A g \in Ids :
            Exhausted(g) =>
                /\ \A t \in Discovered :
                       tasks[t].grower_id = g => tasks[t].result = None
                /\ \A j \in DOMAIN discovery_results :
                       discovery_results[j].grower_id # g
                /\ g \notin Grower
                /\ \A y \in Years : <<g, y>> \notin SeasonalReport

\* C2 witness: a run has ended that has discovered and saved a grower and has
\* probed every season of an identifier without data
C2_Witness ==
    /\ Pipeline
    /\ pc = "exit"
    /\ \E g \in Ids : Exhausted(g)
    /\ \E g \in Ids : g \in Grower
    /\ posted >= NumYears + 1

\* C3: the requests in flight never exceed the configured limit
C3_InFlightBounded == InFlight <= options.concurrent

\* C3 witness: with a limit of one, a request is in flight while another task
\* waits for the permit
C3_Witness ==
    /\ options.command = "async"
    /\ options.concurrent = 1
    /\ InFlight = 1
    /\ \E t \in DOMAIN tasks : tasks[t].pc = "acquire"

\* C4: a logical lookup that returns a report after k failed physical attempts
\* (k <= max_retries) returns the portal's report for the pair, and has
\* incremented the retries counter exactly k times
C4_RetriesCountFailures ==
    \A t \in LookedUp :
        tasks[t].result # None =>
            /\ tasks[t].result = portal[tasks[t].grower_id][tasks[t].season]
            /\ posted - 1 <= max_retries
            /\ stats.retries = posted - 1
            /\ stats.successful_requests = 1

\* C4 witness: fail, fail, succeed
C4_Witness ==
    \E t \in LookedUp :
        /\ tasks[t].result # None
        /\ posted = max_retries + 1
        /\ stats.retries = max_retries

\* C5: a logical lookup never makes more than max_retries + 1 physical
\* attempts, and one that returns no report has made exactly that many (so a
\* lookup whose every attempt fails stops there, on a terminal failure)
C5_BudgetExhausted ==
    /\ posted <= max_retries + 1
    /\ \A t \in LookedUp :
           tasks[t].result = None => posted = max_retries + 1

\* C5 witness: every attempt for a pair the portal holds a report for has
\* timed out, and the lookup has returned None
C5_Witness ==
    \E t \in LookedUp :
        /\ tasks[t].result = None
        /\ portal[tasks[t].grower_id][tasks[t].season] = "named"
        /\ ~authError
        /\ posted = max_retries + 1

\* C6: a logical lookup that ends in terminal failure has incremented
\* failed_requests exactly once
C6_FailedCountedOnce ==
    \A t \in LookedUp :
        tasks[t].result = None => stats.failed_requests = 1

\* C7: an absent response ends the logical lookup: no lookup is still going on
\* (backing off, or retrying) after its last physical attempt was answered
\* "absent"
C7_AbsentIsTerminal ==
    \A t \in DOMAIN tasks : tasks[t].last = "absent" => tasks[t].pc = "done"

\* C8: once a lookup has failed on an invalid session, no new request is
\* dispatched
C8_AuthErrorAborts == [][authError => posted' = posted]_vars

\* C9: without a successful login no lookup is dispatched and nothing is
\* persisted
C9_NoLookupWithoutLogin ==
    [][~is_logged_in' =>
          /\ posted' = 0
          /\ tasks' = <<>>
          /\ Grower' = Grower
          /\ SeasonalReport' = SeasonalReport]_vars

\* C9 witness: the login has failed and the command has returned
C9_Witness ==
    /\ pc = "exit"
    /\ ~is_logged_in
    /\ message = "Login failed. Aborting."

\* C10: a run of the async or thread-pool command ends with a status that is
\* not zero when the login has failed, and otherwise with status zero and the
\* summary of the totals
C10_ExitStatus ==
    (Pipeline /\ pc = "exit") =>
        IF is_logged_in
          THEN exit_status = 0 /\ message = "Process complete"
          ELSE exit_status # 0

\* a second run, in resume mode, of the command of the first run
Resumed == first # <<>> /\ options.resume
\* a second run, without resume mode, of the command of the first run
Repeated ==
    first # <<>> /\ ~options.resume /\ first[1].command = options.command
\* a second run with the other engine
OtherEngineRun == first # <<>> /\ first[1].command # options.command

C12_ResumeExcludesExisting ==
    Resumed =>
        /\ \A t \in DOMAIN tasks : tasks[t].grower_id \notin first[1].Grower
        /\ Ids \subseteq first[1].Grower => (tasks = <<>> /\ posted = 0)

\* C12 witness: a resumed run whose Store holds a grower has a request in
\* flight for another identifier
C12_Witness ==
    /\ Resumed
    /\ first[1].Grower # {}
    /\ InFlight > 0

C14_ReportsAreWhole == GradeAnalysis = SeasonalReport

\* C14 witness: the async command has created a grower whose first-season
\* report was refused for a nested entry and rolled back
C14_Witness ==
    /\ options.command = "async"
    /\ pc = "fetch"
    /\ \E j \in DOMAIN discovery_results :
         /\ discovery_results[j].grower_id \in Grower
         /\ <<discovery_results[j].grower_id, discovery_results[j].first_season>>
                \notin SeasonalReport

\* C15: the delay is a global throttle: when a request is dispatched, no other
\* task is in a delay it began before that dispatch (such a task dispatches
\* less than the delay after it)
C15_GlobalThrottle ==
    [][posted' = posted + 1 =>
          \A t \in DOMAIN tasks' : tasks'[t].pc # "delay"]_vars

\* C16: the discovery of an identifier is one task that starts at start_year
\* and steps to the next season only, and only when the logical lookup of its
\* season is over (its request answered, and in the async scraper after the
\* last retry unless the answer was a report); no two discoveries of a batch
\* are for the same identifier
C16_AscendingOneAtATime ==
    [][/\ \A t \in DOMAIN tasks' :
            (tasks = <<>> /\ tasks'[t].kind = "discover")
                => tasks'[t].season = start_year
       /\ \A t \in DOMAIN tasks \cap DOMAIN tasks' :
            (/\ tasks[t].kind = "discover"
             /\ tasks'[t].kind = "discover"
             /\ tasks'[t].pc # "done"
             /\ tasks'[t].season # tasks[t].season)
                => /\ tasks'[t].season = tasks[t].season + 1
                   /\ tasks'[t].grower_id = tasks[t].grower_id
                   /\ tasks[t].pc = "request"
                   /\ tasks'[t].sent = 0
                   /\ options.command = "async" =>
                        \/ tasks[t].attempt = max_retries
                        \/ portal[tasks[t].grower_id][tasks[t].season] = "empty"
       /\ \A t, u \in DOMAIN tasks' :
            (/\ tasks'[t].kind = "discover"
             /\ tasks'[u].kind = "discover"
             /\ tasks'[t].grower_id = tasks'[u].grower_id) => t = u]_vars

\* C16 witness: the discovery of an identifier has its second season in
\* flight while the discovery of another identifier has a request in flight
C16_Witness ==
    \E t, u \in DOMAIN tasks :
        /\ tasks[t].kind = "discover" /\ tasks[u].kind = "discover"
        /\ tasks[t].grower_id # tasks[u].grower_id
        /\ tasks[t].pc = "request" /\ tasks[u].pc = "request"
        /\ tasks[t].season = start_year + 1

\* C18: in discover-only mode every task is a discovery probe, the counts of
\* reports saved stay 0, and the only reports persisted are first-season
\* reports of discovery results
C18_DiscoverOnly ==
    [][(Pipeline /\ options.discover_only) =>
          /\ \A t \in DOMAIN tasks' : tasks'[t].kind = "discover"
          /\ reports_saved' = 0
          /\ total_reports_saved' = 0
          /\ SeasonalReport' # SeasonalReport =>
               /\ pc = "save"
               /\ \E gn \in GrowerNumbers(discovery_results[k].grower_id) :
                    SeasonalReport' = SeasonalReport \cup
                        {<<gn, discovery_results[k].first_season>>}]_vars

\* C18 witness: a discover-only run has ended with a first-season report of a
\* grower that has later seasons to fetch
C18_Witness ==
    /\ Pipeline
    /\ options.discover_only
    /\ pc = "exit"
    /\ \E g \in Ids : <<g, start_year>> \in SeasonalReport

\* C17: the full-history stage dispatches, for the discovery result at hand,
\* one lookup for every season after its first season up to current_year that
\* the Store holds no report of for the identifier, and no other lookup
C17_MissingSeasonsFetched ==
    [][pc = "fetch" =>
          LET result == discovery_results[k]
          IN  {<<tasks'[t].kind, tasks'[t].grower_id, tasks'[t].season>> :
                   t \in DOMAIN tasks'}
              = {<<"fetch", result.grower_id, y>> :
                   y \in {z \in Years :
                            /\ z > result.first_season
                            /\ <<result.grower_id, z>> \notin SeasonalReport}}]_vars

\* C17 witness: in a run repeated on the Store of the first, the stage has
\* dispatched the lookups of a grower one season of whom the first run could
\* not fetch
C17_Witness ==
    /\ Repeated
    /\ pc = "fetchwait"
    /\ tasks # <<>>

\* C19: run on the same portal, world and initial Store, the async and the
\* thread-pool command end with the same seasonal reports
C19_EnginesAgree ==
    (OtherEngineRun /\ pc = "exit" /\ is_logged_in) =>
        SeasonalReport = first[1].SeasonalReport

\* the lookups for g never fail, its reports are valid and carry its number
Healthy(g) ==
    /\ \A y \in Years : world.fails[g][y] = 0 /\ <<g, y>> \notin world.invalid
    /\ g \notin world.unnumbered

\* C20: when a run of the full pipeline has completed, every identifier whose
\* own lookups and saves do not fail and that has data is a grower of the
\* Store with a report for every season from its first on that the portal
\* has one for, whatever has failed for another identifier
C20_OthersAreProcessed ==
    (world.scripted /\ first = <<>> /\ pc = "exit" /\ is_logged_in) =>
        \A g \in Ids :
            (Healthy(g) /\ ~Exhausted(g)) =>
                /\ g \in Grower
                /\ \A y \in Years :
                       (y >= FirstPeriod(g) /\ portal[g][y] # "absent")
                           => <<g, y>> \in SeasonalReport

\* C20 witness: a run has completed in which a lookup of one identifier has
\* failed for good, or its save has, and another identifier has its reports
C20_Witness ==
    /\ world.scripted /\ first = <<>> /\ pc = "exit" /\ is_logged_in
    /\ \E g, h \in Ids :
         /\ g # h
         /\ \/ world.fails[g][start_year] > max_retries
            \/ <<g, start_year>> \in world.invalid
         /\ portal[g][start_year] = "named"
         /\ <<h, start_year>> \in SeasonalReport
         /\ <<h, current_year>> \in SeasonalReport

\* C21: under the thread pool no update of a counter is lost: once every
\* worker has returned, each counter holds the number of _update_stats calls
\* made on it (one on requests_made per fetch_report, one on
\* successful_requests per report returned, one on failed_requests per None)
C21_NoLostUpdate ==
    (pc = "pool" /\ AllDone) =>
        /\ stats.requests_made = Len(tasks)
        /\ stats.successful_requests =
               Cardinality({t \in DOMAIN tasks : tasks[t].result # None})
        /\ stats.failed_requests =
               Cardinality({t \in DOMAIN tasks : tasks[t].result = None})

\* C21 witness: a worker waits for the lock of the counters while another
\* worker, which holds it, has read the counter both are about to increment
C21_Witness ==
    /\ pc = "pool"
    /\ \E t, u \in DOMAIN tasks :
         /\ t # u
         /\ tasks[t].pc = "lock"
         /\ tasks[u].pc = "write"
         /\ tasks[t].stat_name = tasks[u].stat_name

C23_ParseFailureIsSkipped ==
    \A t \in DOMAIN tasks :
        tasks[t].last = "malformed" =>
            /\ tasks[t].pc = "done"
            /\ tasks[t].result # None

\* C24: a discovery never returns a first season later than the first season
\* at which the portal holds a report with a name for the identifier, whatever
\* lookups have failed
C24_NeverLaterThanFirstPresent ==
    \A t \in Discovered :
        (tasks[t].result # None /\ ~Exhausted(tasks[t].grower_id)) =>
            tasks[t].season <= FirstPeriod(tasks[t].grower_id)

\* C25: a season of the full-history stage that a run has skipped on a
\* terminal failure is fetched and persisted by the next run in resume mode,
\* when the portal answers: that run ends with a report for every season,
\* after one the first run has saved for a grower, that the portal holds a
\* valid report for
C25_SkippedOnlyForThisRun ==
    (Resumed /\ pc = "exit" /\ is_logged_in) =>
        \A g \in Ids \cap first[1].Grower : \A y \in Years :
            (/\ \E z \in Years : z < y /\ <<g, z>> \in first[1].SeasonalReport
             /\ parse_report(portal[g][y]) # None
             /\ <<g, y>> \notin world.invalid)
                => <<g, y>> \in SeasonalReport

\* the identifiers of a batch
BatchSet(b) == {b[j] : j \in DOMAIN b}

\* C26: the batches of the batch loop partition the range: no batch holds an
\* identifier outside start .. end or more than batch_size identifiers, the
\* identifiers ascend within a batch and from one batch to the next, and when
\* the loop is over every identifier of the range is in exactly one batch
C26_BatchesPartitionRange ==
    /\ \A j \in DOMAIN batches :
         /\ BatchSet(batches[j]) \subseteq options.start .. options.end
         /\ Len(batches[j]) <= options.batch_size
         /\ \A a, b \in DOMAIN batches[j] :
              a < b => batches[j][a] < batches[j][b]
    /\ \A j, l \in DOMAIN batches :
         j < l => \A a \in BatchSet(batches[j]), b \in BatchSet(batches[l]) :
                      a < b
    /\ pc = "exit" =>
         \A g \in options.start .. options.end :
             Cardinality({j \in DOMAIN batches : g \in BatchSet(batches[j])}) = 1

\* C26 witness: the loop is over after several batches, the last of which is
\* shorter than batch_size
C26_Witness ==
    /\ options.command = "range"
    /\ pc = "exit"
    /\ Len(batches) >= 3
    /\ Len(batches[Len(batches)]) < options.batch_size
    /\ Len(batches[1]) = options.batch_size

\* the identifiers the command holds discovery or fetch state for
InProgress ==
    {tasks[t].grower_id : t \in DOMAIN tasks}
    \cup {discovery_results[j].grower_id : j \in DOMAIN discovery_results}

\* C27: batches are processed one at a time: every task and every discovery
\* result is for an identifier of the batch at batch_start, so that state is
\* held for batch_size identifiers at most, and the loop steps to the next
\* batch only when every task of the batch has returned and its results have
\* been dropped
C27_OneBatchAtATime ==
    [][Pipeline =>
          /\ InProgress' \subseteq
                 batch_start' .. (batch_start' + options.batch_size - 1)
          /\ Cardinality(InProgress') <= options.batch_size
          /\ batch_start' # batch_start =>
               /\ AllDone
               /\ tasks' = <<>>
               /\ discovery_results' = <<>>]_vars

\* C27 witness: the first batch is over, with a grower saved, and a request
\* is in flight for the one identifier of the second batch
C27_Witness ==
    /\ Pipeline
    /\ options.batch_size = 1
    /\ batch_start = start_id + 1
    /\ start_id \in Grower
    /\ InFlight = 1

\* C28: the stages of a batch are ordered: the saves begin when every
\* discovery of the batch has returned and go through the results one by one;
\* the full-history stage begins after the save of the last result, and the
\* lookups it dispatches are for a result of the batch, whose save has thus
\* been attempted; the Store is written by the saves only, while no lookup is
\* pending
C28_StagesAreOrdered ==
    [][Pipeline =>
          /\ (pc' = "save" /\ pc # "save") =>
                 /\ pc = "discover" /\ AllDone
                 /\ tasks' = <<>> /\ k' = 1
          /\ (pc' = "save" /\ pc = "save") => k' = k + 1
          /\ (pc' = "fetch" /\ pc \notin {"fetch", "fetchwait"}) =>
                 pc = "save" /\ k = Len(discovery_results)
          /\ (\E t \in DOMAIN tasks' : tasks'[t].kind = "fetch"
                                        /\ tasks'[t].pc \in {"acquire", "queued"}
                                        /\ tasks = <<>>) =>
                 /\ pc = "fetch"
                 /\ \A t \in DOMAIN tasks' :
                        tasks'[t].grower_id = discovery_results[k].grower_id
          /\ <<Grower, SeasonalReport>>' # <<Grower, SeasonalReport>> =>
                 /\ pc \in {"save", "fetchwait"}
                 /\ tasks = <<>> \/ AllDone]_vars

\* C28 witness: a full-history lookup is in flight for the second of two
\* growers the batch has discovered and saved
C28_Witness ==
    /\ Pipeline
    /\ pc = "fetchwait"
    /\ Len(discovery_results) = 2
    /\ k = 2
    /\ InFlight = 1
    /\ \A j \in DOMAIN discovery_results :
           discovery_results[j].grower_id \in Grower

\* C29: the backoff sleep a lookup takes after its i-th failed attempt, before
\* its i-th retry (i = 1 .. max_retries), lasts retry_delay * i, longer than
\* the sleep before; no sleep follows the last attempt
C29_BackoffGrows ==
    [][\A t \in DOMAIN tasks \cap DOMAIN tasks' :
          (tasks'[t].pc = "backoff" /\ tasks[t].pc # "backoff") =>
              /\ tasks[t].sent \in 1 .. max_retries
              /\ tasks'[t].sleep = retry_delay * tasks[t].sent
              /\ tasks'[t].sleep > tasks[t].sleep]_vars

\* C29 witness: the lookup is in the sleep before its last retry
C29_Witness ==
    /\ pc = "lookup"
    /\ \E t \in DOMAIN tasks :
         /\ tasks[t].pc = "backoff"
         /\ tasks[t].sent = max_retries
         /\ tasks[t].sleep = retry_delay * max_retries

\* C30: after a successful login the run reaches its end: the batch loop
\* steps through the range by batch_size, once per batch, and is over when
\* the command returns; a discovery makes at most max_retries + 1 requests
\* per season of the range, so that the first identifier of the range has
\* been sent no more than NumYears * (max_retries + 1) requests while it is
\* discovered; and no task stays suspended on the semaphore
C30_RunCompletes ==
    /\ [][/\ batch_start' # batch_start =>
                batch_start' = batch_start + options.batch_size
          /\ pc' = "exit" /\ is_logged_in' => batch_start' > end_id]_vars
    /\ [](\A t \in DOMAIN tasks :
              /\ tasks[t].season \in Years
              /\ tasks[t].sent <= max_retries + 1)
    /\ []((pc = "discover" /\ batch_start = start_id
                           /\ options.batch_size = 1)
              => posted <= NumYears * (max_retries + 1))
    /\ (pc = "batch" ~> pc = "exit")
    /\ \A t \in 1 .. (NumIds + NumYears) :
           (t \in DOMAIN tasks /\ tasks[t].pc = "acquire")
               ~> ~(t \in DOMAIN tasks /\ tasks[t].pc = "acquire")

\* C30 witness: the discovery of the first identifier has posted its last
\* request, after every request before has failed
C30_Witness ==
    /\ pc = "discover"
    /\ batch_start = start_id
    /\ options.batch_size = 1
    /\ posted = NumYears * (max_retries + 1)
    /\ InFlight = 1

\* C31: in the async scraper the permits are conserved: the free permits and
\* the tasks inside `async with self.semaphore` (sleeping before the request,
\* or waiting for its response) add up to max_concurrent_requests, whatever
\* way the requests before have ended
C31_PermitsConserved ==
    options.command = "async" =>
        /\ semaphore >= 0
        /\ semaphore + HoldingPermit = options.concurrent

\* C31 witness: a request has ended in an exception, its task is in the
\* backoff sleep, and every permit is free again
C31_Witness ==
    /\ options.command = "async"
    /\ \E t \in DOMAIN tasks :
         tasks[t].pc = "backoff" /\ tasks[t].last \in Errors
    /\ semaphore = options.concurrent

\* C32: in every Store state of the async and of the thread-pool command, a
\* grower of the Store has a seasonal report: the grower and its first-season
\* report are saved together or not at all
C32_GrowerHasFirstReport ==
    Pipeline =>
        \A gn \in Grower : \E y \in Years : <<gn, y>> \in SeasonalReport

\* C33: the grower saved for a discovery result is keyed by the identifier
\* that was probed: when the save of discovery_results[k] writes the Store,
\* the Store holds a grower under that identifier afterwards, whatever
\* grower_number field the report carries
C33_KeyedByProbedIdentifier ==
    [][(Pipeline /\ pc = "save"
                 /\ <<Grower, SeasonalReport>>' # <<Grower, SeasonalReport>>)
          => discovery_results[k].grower_id \in Grower']_vars

\* C34: the discovery of an identifier ends on the first report with a name:
\* the task whose request is answered by such a report returns a result for
\* that season, a discovery that has returned posts no request any more, and
\* the results of a batch hold an identifier once at most
C34_DiscoveryStopsAtFirstName ==
    [][(Pipeline /\ world.scripted) =>
          /\ \A t \in DOMAIN tasks \cap DOMAIN tasks' :
               (tasks[t].kind = "discover" /\ tasks'[t].kind = "discover") =>
                   /\ tasks[t].pc = "done" => tasks'[t] = tasks[t]
                   /\ (/\ tasks[t].pc = "request"
                       /\ tasks'[t] # tasks[t]
                       /\ tasks[t].attempt >=
                              world.fails[tasks[t].grower_id][tasks[t].season]
                       /\ portal[tasks[t].grower_id][tasks[t].season] = "named")
                          => /\ tasks'[t].pc = "done"
                             /\ tasks'[t].season = tasks[t].season
                             /\ tasks'[t].result = "named"
          /\ \A j, l \in DOMAIN discovery_results' :
               discovery_results'[j].grower_id = discovery_results'[l].grower_id
                   => j = l]_vars

\* C34 witness: a discovery has returned its result for start_year after one
\* request, for an identifier the portal holds a later report with a name for
C34_Witness ==
    /\ Pipeline
    /\ world.scripted
    /\ options.batch_size = 1
    /\ posted = 1
    /\ \E t \in Discovered :
         /\ tasks[t].result = "named"
         /\ tasks[t].season = start_year
         /\ portal[tasks[t].grower_id][current_year] = "named"

\* C35: in the sequential command a lookup of the discovery probe that returns
\* no report (the absent page or a RequestException) does not end the run:
\* the command stays in the probe loop or steps on to the next identifier
C35_LookupFailureDoesNotHalt ==
    [][(options.command = "sequential" /\ pc = "probe"
          /\ posted' = posted + 1 /\ report_data' = None)
          => pc' \in {"probe", "grower"}]_vars

\* C36: in the sequential command a grower is written to the Store only
\* after a probed season has returned a report with a name: the step after a
\* probe loop that has ended on a report with an empty name leaves the Store
\* as it is and does not start the scraping of the seasons
C36_GrowerOnlyWithName ==
    [][options.command = "sequential" =>
          /\ Grower' # Grower => report_data = "named"
          /\ (pc = "create" /\ pc' = "scrape") => report_data = "named"]_vars

\* C37: in the sequential command, a turn of the loop over the seasons of a
\* grower of the Store posts no request for a season whose report the Store
\* holds and one request for a season it lacks, and the loop takes the
\* configured seasons one after the other up to the last
C37_OnlyMissingSeasons ==
    [][(options.command = "sequential" /\ pc = "scrape" /\ i \in Grower) =>
          /\ posted' = posted +
                 (IF <<i, SEASONS[k]>> \in SeasonalReport THEN 0 ELSE 1)
          /\ <<i, SEASONS[k]>> \in SeasonalReport =>
                 /\ pc' # "exit"
                 /\ SeasonalReport' = SeasonalReport
          /\ pc' # "exit" =>
                 IF k < Len(SEASONS)
                   THEN pc' = "scrape" /\ k' = k + 1 /\ i' = i
                   ELSE pc' = "grower" /\ i' = i + 1]_vars

\* C37 witness: the command has gone through the seasons of a grower the
\* Store held with the report of the first season and without that of the
\* second, and has posted one request
C37_Witness ==
    /\ options.command = "sequential"
    /\ pc = "grower"
    /\ i = start_id + 1
    /\ posted = 1
    /\ <<start_id, SEASONS[1]>> \in SeasonalReport
    /\ <<start_id, SEASONS[2]>> \notin SeasonalReport

====
